---- MODULE Spec2Model ----
(***************************************************************************)
(* Model of the MIG action store (database/actions.go), the action trust   *)
(* checks (mig/action.go) and the scheduler's action intake               *)
(* (mig/scheduler/scheduler.go).                                           *)
(***************************************************************************)
EXTENDS Integers, FiniteSets, Sequences, TLC

(***************************************************************************)
(* Bounds of the model.                                                    *)
(***************************************************************************)
MaxActions == 2
MaxTime == 2
MaxAgents == 1
MaxCount == 2
MaxOps == 2
MaxRules == 2
MaxSigs == 2
MaxWeight == 2
MaxRegs == 3
MaxCmds == 2
MaxElapsed == 3
MaxWall == 2
MaxBeats == 2
MaxInstant == 1
MaxOffset == 1
MaxManifestSigs == 3
MaxLines == 2
MaxAge == 6
MaxDBCalls == 3
MaxFilter == 6
MaxFiles == 2
MaxChecks == 2
MaxRuns == 2

ActionIds == 1..MaxActions
Times == 0..MaxTime
Agents == 1..MaxAgents
Schedulers == {"s1", "s2"}

(***************************************************************************)
(* Status vocabularies.                                                    *)
(***************************************************************************)
StatusSent == "sent"
StatusSuccess == "success"
StatusCancelled == "cancelled"
StatusExpired == "expired"
StatusFailed == "failed"
StatusTimeout == "timeout"

CommandStatuses ==
  {StatusSent, StatusSuccess, StatusCancelled, StatusExpired, StatusFailed, StatusTimeout}

TerminalCommandStatuses == CommandStatuses \ {StatusSent}

ActionStatuses ==
  {"pending", "scheduled", "preparing", "inflight", "completed", "expired", "cancelled"}

VARIABLES
  actions,    \* the actions table: id -> row; status "none" is an absent row
  commands,   \* the commands table: action id -> agent -> status, "none" is no row
  now,        \* the database clock, NOW()
  pc,         \* per scheduler: position inside SetupRunnableActions
  callNow,    \* per scheduler: NOW() of the running statement
  cand,       \* per scheduler: rows of the statement's snapshot not yet visited
  wr,         \* per scheduler: rows updated and locked, not yet committed
  ret,        \* per scheduler: the actions the last call returned
  base,       \* per scheduler: the table the running statement started from
  after,      \* per scheduler: the table right after the statement committed
  writers,    \* per scheduler: who else wrote the table during the call
  overlap,    \* per scheduler: the call ran while another call was running
  retCount,   \* per action: number of calls that returned it
  cmdCount,   \* GetActionCounters: commands of the action per status
  counters,   \* GetActionCounters: the counters returned
  ctrPhase,   \* GetActionCounters: "input" or "done"
  acl,        \* VerifyACL: the ACL, a sequence of permissions
  operations, \* VerifyACL: the modules of the action's operations
  signatures, \* VerifyACL: the action's signatures, by what verifying yields
  aclResult,  \* VerifyACL: "none" before the call, then "ok" or "denied"
  regDocs,    \* scheduler: registration documents that carry name and os
  regBlank,   \* scheduler: registration documents left with timestamps only
  regSeen,    \* scheduler: registration messages handled so far
  consumers,  \* scheduler: per queue location, consumers of mig.scheduler.<queueloc>
  newActions, \* scheduler: files in actions/new, action id -> content
  readyCmds,  \* scheduler: files in commands/ready, file name -> command
  matched,    \* scheduler: per pulled action, how many targets it matched
  inbox,      \* agent: per command, its delivery on the agent's queue
  nextTag,    \* agent: the next delivery tag of the AMQP channel
  gpc,        \* agent: per getCommands goroutine, "recv", "ack" or "queue"
  held,       \* agent: per getCommands goroutine, the delivery it holds
  queued,     \* agent: commands whose body was sent on the actions channel
  actionsChan,  \* agent: the channel getCommands -> parseCommands
  fCommandChan, \* agent: the channel parseCommands -> runFilechecker
  resultChan,   \* agent: the channel runFilechecker -> sendResults
  rpc,        \* agent: runFilechecker is "idle", in "decode" or in "select"
  cur,        \* agent: the command runFilechecker is running, 0 for none
  modOut,     \* the module's stdout: "none", "json" or "eof"
  modExit,    \* the module process: "running", "zero", "nonzero", "killed"
  elapsed,    \* time since the module was started
  timer,      \* time since the select's time.After was armed
  agentUp,    \* the agent process has not exited
  outcome,    \* per command, how its module execution ended
  bindings,   \* broker: the bindings of the exchange "mig", <<queue, key>>
  started,    \* per agent process: main has run
  queueLoc,   \* per agent process: regMsg.QueueLoc
  lastKeepAlive, \* per agent process: regMsg.LastKeepAlive
  wall,       \* the wall clock time.Now() reads
  beats,      \* per agent process: the timestamps of its heartbeats, in order
  published,  \* messages the agents published, with the queues they reached
  sAction,    \* signing: the action handed to SignAction
  signerZone, \* signing: the local time zone of the signer's host
  verifierZone, \* signing: the local time zone of the verifier's host
  sKey,       \* signing: the key id the signer uses
  sSig,       \* signing: the signature made, or NoSig
  verified,   \* signing: "none", then the result of VerifySignatures
  mSigs,      \* manifest: m.Signatures
  mInput,     \* manifest: the signatures the response arrived with
  mCount,     \* manifest: validcnt returned, -1 before the call
  mErr,        \* manifest: VerifySignatures returned an error
  wlSet,      \* whitelist: ctx.Agent.Whitelist is not the empty string
  wlExists,   \* whitelist: the whitelist file can be opened
  wlLines,    \* whitelist: the lines of the whitelist file, in order
  wlLoc,      \* whitelist: the agentQueueLoc handed to isAgentAuthorized
  wlOk,       \* whitelist: the result ok
  wlErr,      \* whitelist: the result err is not nil
  wlDone,      \* whitelist: isAgentAuthorized has returned
  hbDecodable,  \* heartbeat upload: the request body decodes as a Heartbeat
  hbReq,        \* heartbeat upload: the Heartbeat decoded from the body
  hbAge,        \* heartbeat upload: minutes from hb.StartTime to time.Now()
  hbAuthOk,     \* heartbeat upload: Authenticate would return nil
  hbPersistOk,  \* heartbeat upload: PersistHeartbeat would return nil
  hbStatus,     \* heartbeat upload: the response status, 0 before the response
  hbAuthCalled, \* heartbeat upload: Authenticate was called
  hbPersistCalled, \* heartbeat upload: PersistHeartbeat was called
  relation,   \* agent_action_relation: action id -> agent -> "none", "new", "retrieved"
  dpc,        \* per database client: the statement its running call is at
  dcall,      \* per database client: the call it runs, with its arguments
  dnew,       \* per database client: its statement found no row with the id
  dsel,       \* per database client: the action ids its SELECT returned
  dres,       \* per database client: what the call returned
  handed,     \* per action and agent: calls that returned the action for the agent
  dcalls,      \* database clients: calls made so far
  fInput,     \* filterString: the input string
  fFilter,    \* filterString: the filter, a sequence of tokens
  fOutput,    \* filterString: the result output
  fErr,       \* filterString: the result err is not nil
  fDone,       \* filterString: the call has returned
  stats,      \* filechecker: the global statistics
  checklist,  \* filechecker: the checklist of the last run
  inspected,  \* filechecker: the files the last run opened and inspected
  runs        \* filechecker: runs made in this process

storeVars ==
  <<actions, commands, now, pc, callNow, cand, wr, ret, base, after, writers,
    overlap, retCount>>

counterVars == <<cmdCount, counters, ctrPhase>>

aclVars == <<acl, operations, signatures, aclResult>>

pullVars ==
  <<regDocs, regBlank, regSeen, consumers, newActions, readyCmds, matched>>

agentVars ==
  <<inbox, nextTag, gpc, held, queued, actionsChan, fCommandChan, resultChan,
    rpc, cur, modOut, modExit, elapsed, timer, agentUp, outcome>>

brokerVars == <<bindings, started, queueLoc, lastKeepAlive, wall, beats, published>>

signVars == <<sAction, signerZone, verifierZone, sKey, sSig, verified>>

manifestVars == <<mSigs, mInput, mCount, mErr>>

authVars == <<wlSet, wlExists, wlLines, wlLoc, wlOk, wlErr, wlDone>>

hbVars ==
  <<hbDecodable, hbReq, hbAge, hbAuthOk, hbPersistOk, hbStatus, hbAuthCalled,
    hbPersistCalled>>

relVars == <<relation, dpc, dcall, dnew, dsel, dres, handed, dcalls>>

filterVars == <<fInput, fFilter, fOutput, fErr, fDone>>

statVars == <<stats, checklist, inspected, runs>>

moreVars == <<authVars, hbVars, relVars, filterVars, statVars>>

extVars == <<agentVars, brokerVars, signVars, manifestVars, moreVars>>

nonStoreVars == <<counterVars, aclVars, pullVars, extVars>>

vars == <<storeVars, counterVars, aclVars, pullVars, extVars>>

NoRow == [status |-> "none", validfrom |-> 0, expireafter |-> 0]

NoCommands == [g \in Agents |-> "none"]

EmptyTable == [a \in ActionIds |-> NoRow]

\* WHERE status='pending' AND validfrom < NOW() AND expireafter > NOW()
Runnable(row, t) ==
  /\ row.status = "pending"
  /\ row.validfrom < t
  /\ row.expireafter > t

RunnableIn(tbl, t) == {a \in ActionIds : Runnable(tbl[a], t)}

\* the rows in ids are returned and their status is left as it was
MarkScheduled_Unmarked(tbl, ids) == tbl

\* UPDATE actions SET status='scheduled' on the rows in ids
MarkScheduled(tbl, ids) ==
  [a \in ActionIds |->
     IF a \in ids THEN [tbl[a] EXCEPT !.status = "scheduled"] ELSE tbl[a]]

Locked(a) == \E q \in Schedulers : a \in wr[q]

LockedByOther(p, a) == \E q \in Schedulers \ {p} : a \in wr[q]

Active(p) == pc[p] = "update"

\* every running call other than p learns that "who" wrote the table
NoteWrite(p, who) ==
  [q \in Schedulers |->
     IF q # p /\ Active(q) THEN writers[q] \cup {who} ELSE writers[q]]

InitStore ==
  /\ actions = EmptyTable
  /\ commands = [a \in ActionIds |-> NoCommands]
  /\ now = 0
  /\ pc = [p \in Schedulers |-> "idle"]
  /\ callNow = [p \in Schedulers |-> 0]
  /\ cand = [p \in Schedulers |-> {}]
  /\ wr = [p \in Schedulers |-> {}]
  /\ ret = [p \in Schedulers |-> {}]
  /\ base = [p \in Schedulers |-> EmptyTable]
  /\ after = [p \in Schedulers |-> EmptyTable]
  /\ writers = [p \in Schedulers |-> {}]
  /\ overlap = [p \in Schedulers |-> FALSE]
  /\ retCount = [a \in ActionIds |-> 0]

\* time passes
Tick ==
  /\ now <= MaxTime
  /\ now' = now + 1
  /\ UNCHANGED <<actions, commands, pc, callNow, cand, wr, ret, base, after,
                 writers, overlap, retCount>>
  /\ UNCHANGED nonStoreVars

\* SetupRunnableActions, statement start: the UPDATE takes its snapshot
SetupRunnableActionsBegin(p) ==
  /\ pc[p] = "idle"
  /\ pc' = [pc EXCEPT ![p] = "update"]
  /\ callNow' = [callNow EXCEPT ![p] = now]
  /\ cand' = [cand EXCEPT ![p] = RunnableIn(actions, now)]
  /\ ret' = [ret EXCEPT ![p] = {}]
  /\ base' = [base EXCEPT ![p] = actions]
  /\ writers' = [writers EXCEPT ![p] = {}]
  /\ overlap' = [q \in Schedulers |->
                   IF q = p THEN \E r \in Schedulers \ {p} : Active(r)
                   ELSE IF Active(q) THEN TRUE ELSE overlap[q]]
  /\ UNCHANGED <<actions, commands, now, wr, after, retCount>>
  /\ UNCHANGED nonStoreVars

\* the WHERE clause evaluated on the statement's snapshot only
StillRunnable_Snapshot(p, a) == Runnable(base[p][a], callNow[p])

\* the row is still pending when the statement reaches it
StillRunnable(p, a) == Runnable(actions[a], callNow[p])

\* SetupRunnableActions, one row: wait for the row lock, re-evaluate the
\* WHERE clause on the latest committed version, update the row
SetupRunnableActionsRow(p, a) ==
  /\ Active(p)
  /\ a \in cand[p]
  /\ ~LockedByOther(p, a)
  /\ cand' = [cand EXCEPT ![p] = @ \ {a}]
  /\ wr' = [wr EXCEPT ![p] = IF StillRunnable(p, a) THEN @ \cup {a} ELSE @]
  /\ UNCHANGED <<actions, commands, now, pc, callNow, ret, base, after,
                 writers, overlap, retCount>>
  /\ UNCHANGED nonStoreVars

\* SetupRunnableActions, statement end: commit, release the locks, return
\* the RETURNING rows
SetupRunnableActionsCommit(p) ==
  /\ Active(p)
  /\ cand[p] = {}
  /\ actions' = MarkScheduled(actions, wr[p])
  /\ ret' = [ret EXCEPT ![p] = wr[p]]
  /\ wr' = [wr EXCEPT ![p] = {}]
  /\ pc' = [pc EXCEPT ![p] = "done"]
  /\ after' = [after EXCEPT ![p] = actions']
  /\ writers' = IF wr[p] = {} THEN writers ELSE NoteWrite(p, "scheduler")
  /\ retCount' = [a \in ActionIds |->
                    IF a \in wr[p] /\ retCount[a] < 2
                    THEN retCount[a] + 1 ELSE retCount[a]]
  /\ UNCHANGED <<commands, now, callNow, cand, base, overlap>>
  /\ UNCHANGED nonStoreVars

\* two statements each wait for a row the other holds: the database aborts
\* one of them, which returns an error and no action
SetupRunnableActionsAbort(p) ==
  /\ Active(p)
  /\ \E q \in Schedulers \ {p} :
       /\ Active(q)
       /\ cand[p] \cap wr[q] # {}
       /\ cand[q] \cap wr[p] # {}
  /\ pc' = [pc EXCEPT ![p] = "failed"]
  /\ wr' = [wr EXCEPT ![p] = {}]
  /\ cand' = [cand EXCEPT ![p] = {}]
  /\ ret' = [ret EXCEPT ![p] = {}]
  /\ UNCHANGED <<actions, commands, now, callNow, base, after, writers,
                 overlap, retCount>>
  /\ UNCHANGED nonStoreVars

\* the caller has taken the result of the call
SetupRunnableActionsReturn(p) ==
  /\ pc[p] \in {"done", "failed"}
  /\ pc' = [pc EXCEPT ![p] = "idle"]
  /\ callNow' = [callNow EXCEPT ![p] = 0]
  /\ ret' = [ret EXCEPT ![p] = {}]
  /\ base' = [base EXCEPT ![p] = EmptyTable]
  /\ after' = [after EXCEPT ![p] = EmptyTable]
  /\ writers' = [writers EXCEPT ![p] = {}]
  /\ overlap' = [overlap EXCEPT ![p] = FALSE]
  /\ UNCHANGED <<actions, commands, now, cand, wr, retCount>>
  /\ UNCHANGED nonStoreVars

\* INSERT INTO actions ... VALUES (...): the row as given by the caller
InsertAction(tbl, a, row) == [tbl EXCEPT ![a] = row]

\* UPDATE actions SET (starttime, lastupdatetime, status) = (...) WHERE id=$1
UpdateAction(tbl, a, status) ==
  IF tbl[a].status = "none" THEN tbl ELSE [tbl EXCEPT ![a].status = status]

\* UPDATE actions SET (status) = ($2) WHERE id=$1
UpdateActionStatus(tbl, a, status) ==
  IF tbl[a].status = "none" THEN tbl ELSE [tbl EXCEPT ![a].status = status]

\* a.Status = "completed"; UPDATE actions SET (finishtime, lastupdatetime,
\* status) = (...) WHERE id=$4
FinishAction(tbl, a) ==
  IF tbl[a].status = "none" THEN tbl ELSE [tbl EXCEPT ![a].status = "completed"]

ZeroCounters ==
  [Sent |-> 0, Returned |-> 0, Done |-> 0, InFlight |-> 0, Success |-> 0,
   Cancelled |-> 0, Expired |-> 0, Failed |-> 0, TimeOut |-> 0]

\* the switch without the case of the sent commands
CountRow_NoSent(c, status, count) ==
  IF status = StatusSent THEN c
  ELSE [c EXCEPT !.Done = @ + count, !.Sent = @ + count]

\* the switch with a failed case that does not add to Done
CountRow_FailedNotDone(c, status, count) ==
  CASE status = StatusSent ->
         [c EXCEPT !.InFlight = count, !.Sent = @ + count]
    [] status = StatusSuccess ->
         [c EXCEPT !.Success = count, !.Done = @ + count, !.Sent = @ + count]
    [] status = StatusCancelled ->
         [c EXCEPT !.Cancelled = count, !.Done = @ + count, !.Sent = @ + count]
    [] status = StatusExpired ->
         [c EXCEPT !.Expired = count, !.Done = @ + count, !.Sent = @ + count]
    [] status = StatusFailed ->
         [c EXCEPT !.Failed = count, !.Sent = @ + count]
    [] status = StatusTimeout ->
         [c EXCEPT !.TimeOut = count, !.Done = @ + count, !.Sent = @ + count]
    [] OTHER -> c

\* the body of the switch in GetActionCounters for one (status, count) row
CountRow(c, status, count) ==
  CASE status = StatusSent ->
         [c EXCEPT !.InFlight = count, !.Sent = @ + count]
    [] status = StatusSuccess ->
         [c EXCEPT !.Success = count, !.Done = @ + count, !.Sent = @ + count]
    [] status = StatusCancelled ->
         [c EXCEPT !.Cancelled = count, !.Done = @ + count, !.Sent = @ + count]
    [] status = StatusExpired ->
         [c EXCEPT !.Expired = count, !.Done = @ + count, !.Sent = @ + count]
    [] status = StatusFailed ->
         [c EXCEPT !.Failed = count, !.Done = @ + count, !.Sent = @ + count]
    [] status = StatusTimeout ->
         [c EXCEPT !.TimeOut = count, !.Done = @ + count, !.Sent = @ + count]
    [] OTHER -> c

\* for rows.Next() { ... } over the rows of the GROUP BY
RECURSIVE CountRows(_, _, _)
CountRows(c, cnt, todo) ==
  IF todo = {} THEN c
  ELSE LET s == CHOOSE x \in todo : TRUE
       IN CountRows(CountRow(c, s, cnt[s]), cnt, todo \ {s})

\* SELECT DISTINCT(status), COUNT(id) FROM commands WHERE actionid = $1
\* GROUP BY status: one row per status that has commands
GetActionCounters(cnt) ==
  CountRows(ZeroCounters, cnt, {s \in DOMAIN cnt : cnt[s] > 0})

\* number of command rows of action a per status
CommandCounts(a) ==
  [s \in CommandStatuses |-> Cardinality({g \in Agents : commands[a][g] = s})]

HasCommands(a) == \E g \in Agents : commands[a][g] # "none"

\* the API stores a new action, status pending
NewAction(a, vf, ea) ==
  /\ actions[a].status = "none"
  /\ ~(vf > ea)
  /\ ~(now > ea)
  /\ actions' = InsertAction(actions, a,
                  [status |-> "pending", validfrom |-> vf, expireafter |-> ea])
  /\ writers' = NoteWrite("", "other")
  /\ UNCHANGED <<commands, now, pc, callNow, cand, wr, ret, base, after,
                 overlap, retCount>>
  /\ UNCHANGED nonStoreVars

\* processNewAction: resolve the target to the agents S, one command per
\* agent; no agent: the action is completed at once
processNewAction(a, S) ==
  /\ actions[a].status = "scheduled"
  /\ IF S = {}
     THEN /\ actions' = FinishAction(actions, a)
          /\ UNCHANGED commands
     ELSE /\ actions' = UpdateAction(actions, a, "preparing")
          /\ commands' = [commands EXCEPT ![a] =
                            [g \in Agents |-> IF g \in S THEN StatusSent ELSE "none"]]
  /\ writers' = NoteWrite("", "other")
  /\ UNCHANGED <<now, pc, callNow, cand, wr, ret, base, after, overlap, retCount>>
  /\ UNCHANGED nonStoreVars

\* sendCommands: the commands are published, the action is in flight
sendCommands(a) ==
  /\ actions[a].status = "preparing"
  /\ actions' = UpdateActionStatus(actions, a, "inflight")
  /\ writers' = NoteWrite("", "other")
  /\ UNCHANGED <<commands, now, pc, callNow, cand, wr, ret, base, after,
                 overlap, retCount>>
  /\ UNCHANGED nonStoreVars

\* terminateCommand: a result arrives for a sent command; results for a
\* cancelled action are discarded, a terminal command ignores further results
terminateCommand(a, g, status) ==
  /\ actions[a].status \notin {"none", "preparing", "cancelled"}
  /\ commands[a][g] = StatusSent
  /\ commands' = [commands EXCEPT ![a][g] = status]
  /\ UNCHANGED <<actions, now, pc, callNow, cand, wr, ret, base, after,
                 writers, overlap, retCount>>
  /\ UNCHANGED nonStoreVars

\* expireCommands: a command past its action's expireafter without a
\* terminal status is expired
expireCommands(a, g) ==
  /\ commands[a][g] = StatusSent
  /\ now > actions[a].expireafter
  /\ commands' = [commands EXCEPT ![a][g] = StatusExpired]
  /\ UNCHANGED <<actions, now, pc, callNow, cand, wr, ret, base, after,
                 writers, overlap, retCount>>
  /\ UNCHANGED nonStoreVars

\* updateAction: recompute the counters; every command done: finish the action
updateAction(a) ==
  /\ HasCommands(a)
  /\ LET c == GetActionCounters(CommandCounts(a))
     IN c.Done >= c.Sent
  /\ actions[a].status # "completed"
  /\ actions' = FinishAction(actions, a)
  /\ writers' = NoteWrite("", "other")
  /\ UNCHANGED <<commands, now, pc, callNow, cand, wr, ret, base, after,
                 overlap, retCount>>
  /\ UNCHANGED nonStoreVars

\* operator cancel of an action that has not ended
cancelAction(a) ==
  /\ actions[a].status \in {"pending", "scheduled", "preparing", "inflight"}
  /\ ~Locked(a)
  /\ actions' = UpdateActionStatus(actions, a, "cancelled")
  /\ writers' = NoteWrite("", "other")
  /\ UNCHANGED <<commands, now, pc, callNow, cand, wr, ret, base, after,
                 overlap, retCount>>
  /\ UNCHANGED nonStoreVars

\* an action whose expireafter passed while it was being prepared
expireAction(a) ==
  /\ actions[a].status = "preparing"
  /\ now > actions[a].expireafter
  /\ actions' = UpdateActionStatus(actions, a, "expired")
  /\ writers' = NoteWrite("", "other")
  /\ UNCHANGED <<commands, now, pc, callNow, cand, wr, ret, base, after,
                 overlap, retCount>>
  /\ UNCHANGED nonStoreVars

(***************************************************************************)
(* GetActionCounters applied to one action's commands.                     *)
(***************************************************************************)
IdleCounters ==
  /\ cmdCount = [s \in CommandStatuses |-> 0]
  /\ counters = ZeroCounters
  /\ ctrPhase = "input"

GetActionCountersCall ==
  /\ ctrPhase = "input"
  /\ counters' = GetActionCounters(cmdCount)
  /\ ctrPhase' = "done"
  /\ UNCHANGED <<cmdCount, storeVars, aclVars, pullVars, extVars>>

(***************************************************************************)
(* VerifyACL.                                                              *)
(***************************************************************************)
Modules == {"file", "netstat"}
Fingerprints == {"bob", "carol"}
PermissionNames == Modules \cup {"default"}

SeqsUpTo(S, n) == UNION {[1..k -> S] : k \in 0..n}

\* a Permission: map from a permission name to its threshold and investigators
Permissions ==
  {[n \in {name} |-> [MinimumWeight |-> m, Investigators |-> w]] :
     name \in PermissionNames, m \in 1..MaxWeight, w \in [Fingerprints -> 0..1]}

\* the zero value of Permission
EmptyPermission == [n \in {} |-> 0]

\* pgp.GetFingerprintFromSignature: the signer's fingerprint, or an error for
\* a signature that does not verify under the keyring
GetFingerprintFromSignature(sig) ==
  IF sig \in Fingerprints THEN [err |-> FALSE, fp |-> sig]
  ELSE [err |-> TRUE, fp |-> ""]

RECURSIVE SumWeights(_, _)
SumWeights(inv, fps) ==
  IF fps = {} THEN 0
  ELSE LET f == CHOOSE x \in fps : TRUE
       IN inv[f] + SumWeights(inv, fps \ {f})

\* verifyPermission: the weights of the rule's investigators that signed,
\* summed, reach the rule's minimum weight; no rule under that name: denied
verifyPermission(module, permName, permission, fingerprints) ==
  IF permName \notin DOMAIN permission THEN "denied"
  ELSE IF SumWeights(permission[permName].Investigators, fingerprints)
            >= permission[permName].MinimumWeight
       THEN "ok" ELSE "denied"

\* for _, permission := range acl: the first permission named after the module
RECURSIVE FirstPermission(_, _, _)
FirstPermission(a, name, i) ==
  IF i > Len(a) THEN 0
  ELSE IF name \in DOMAIN a[i] THEN i
       ELSE FirstPermission(a, name, i + 1)

\* the default loop overwrites defaultPerm on every match: the last one stays
RECURSIVE LastPermission(_, _, _)
LastPermission(a, name, i) ==
  IF i = 0 THEN 0
  ELSE IF name \in DOMAIN a[i] THEN i
       ELSE LastPermission(a, name, i - 1)

\* the body of the loop over the operations, for one operation
VerifyOperation(a, module, fingerprints) ==
  LET i == FirstPermission(a, module, 1)
      j == LastPermission(a, "default", Len(a))
  IN IF i > 0 THEN verifyPermission(module, module, a[i], fingerprints)
     ELSE verifyPermission(module, "default",
                           IF j > 0 THEN a[j] ELSE EmptyPermission, fingerprints)

\* Action.VerifyACL: the loop over the operations returns in its first pass
VerifyACL(a, ops, sigs) ==
  IF \E k \in 1..Len(sigs) : GetFingerprintFromSignature(sigs[k]).err
  THEN "denied"
  ELSE IF ops = << >> THEN "ok"
       ELSE VerifyOperation(a, ops[1],
              {GetFingerprintFromSignature(sigs[n]).fp : n \in 1..Len(sigs)})

IdleACL ==
  /\ acl = << >>
  /\ operations = << >>
  /\ signatures = << >>
  /\ aclResult = "none"

VerifyACLCall ==
  /\ aclResult = "none"
  /\ aclResult' = VerifyACL(acl, operations, signatures)
  /\ UNCHANGED <<acl, operations, signatures, storeVars, counterVars, pullVars,
                 extVars>>

(***************************************************************************)
(* The broker: the topic exchange "mig", its queues and bindings.  A queue  *)
(* name or routing key is the tuple of its dot-separated parts; no binding  *)
(* key of the program holds a wildcard, so a key matches a binding when    *)
(* the two are equal.                                                      *)
(***************************************************************************)
Procs == {"p1", "p2"}

\* "mig.register", declared and bound by the scheduler's main
RegisterQueue == <<"mig.register">>

\* queue := fmt.Sprintf("mig.scheduler.%s", reg.QueueLoc)
SchedulerQueue(loc) == <<"mig.scheduler", loc>>

\* agentQueue := fmt.Sprintf("mig.agt.%s", regMsg.QueueLoc)
AgentQueue(loc) == <<"mig.agt", loc>>

\* the second binding key of the agent's queue
AllKey == <<"mig.all">>

\* rKey := fmt.Sprintf("mig.agents.%s", agtQueueLoc)
ResultKey(loc) == <<"mig.agents", loc>>

\* msgXchange(c, "mig", "mig.keepalive", body)
KeepAliveKey == <<"mig.keepalive">>

\* the queues a message published under the key is routed to
Route(key) == {b[1] : b \in {x \in bindings : x[2] = key}}

\* the bindings once the scheduler's main has run
SchedulerBindings == {<<RegisterQueue, RegisterQueue>>}

NoLoc == <<"", "">>

IdleBroker ==
  /\ bindings = SchedulerBindings
  /\ started = [p \in Procs |-> FALSE]
  /\ queueLoc = [p \in Procs |-> NoLoc]
  /\ lastKeepAlive = [p \in Procs |-> 0]
  /\ wall = 0
  /\ beats = [p \in Procs |-> << >>]
  /\ published = {}

(***************************************************************************)
(* The scheduler: registrations and pullAction.                            *)
(***************************************************************************)
Hosts == {"h1", "h2"}
OSes == {"linux", "darwin"}

\* a registration message; QueueLoc is "<os>.<hostname>"
Registrations == [name : Hosts, os : OSes]

QueueLoc(r) == <<r.os, r.name>>

QueueLocs == {QueueLoc(r) : r \in Registrations}

\* an action file: the fields validateActionSyntax reads, and the signatures
ActionFiles ==
  [target : OSes \cup {""}, check : {"filechecker", ""},
   pgpsignatures : SeqsUpTo({"good", "bad"}, MaxSigs)]

NoFile == [target |-> "", check |-> "", pgpsignatures |-> <<"none">>]

NoCommand == [AgentName |-> "", ActionID |-> 0, Action |-> NoFile]

validateActionSyntax(action) ==
  /\ action.target # ""
  /\ action.check # ""

\* Action.VerifySignatures: an error on the first signature that is not valid
VerifySignatures(action) ==
  \A k \in 1..Len(action.pgpsignatures) : action.pgpsignatures[k] = "good"

IdlePull ==
  /\ regDocs = {}
  /\ regBlank = 0
  /\ regSeen = 0
  /\ consumers = [q \in QueueLocs |-> 0]
  /\ newActions = [a \in ActionIds |-> NoFile]
  /\ readyCmds = [q \in QueueLocs |-> NoCommand]
  /\ matched = [a \in ActionIds |-> -1]

\* getRegistrations, one message: a queue mig.scheduler.<queueloc> is declared
\* and bound under its own name and a consumer of it is started; Update replaces the matching document by the
\* two timestamps, and only when none matches is the registration inserted
getRegistrations(r) ==
  /\ regSeen < MaxRegs
  /\ regSeen' = regSeen + 1
  /\ IF r \in regDocs
     THEN /\ regDocs' = regDocs \ {r}
          /\ regBlank' = regBlank + 1
     ELSE /\ regDocs' = regDocs \cup {r}
          /\ UNCHANGED regBlank
  /\ bindings' = bindings \cup {<<SchedulerQueue(QueueLoc(r)), SchedulerQueue(QueueLoc(r))>>}
  /\ consumers' = [consumers EXCEPT ![QueueLoc(r)] = @ + 1]
  /\ UNCHANGED <<newActions, readyCmds, matched, storeVars, counterVars, aclVars>>
  /\ UNCHANGED <<agentVars, started, queueLoc, lastKeepAlive, wall, beats,
                 published, signVars, manifestVars, moreVars>>

\* an action file is created in the new actions directory
newActionFile(a, file) ==
  /\ newActions[a] = NoFile
  /\ matched[a] = -1
  /\ newActions' = [newActions EXCEPT ![a] = file]
  /\ UNCHANGED <<regDocs, regBlank, regSeen, consumers, readyCmds, matched, storeVars,
                 counterVars, aclVars, extVars>>

\* mgoRegCol.Find(bson.M{"os": action.Target})
Targets(action) == {r \in regDocs : r.os = action.target}

\* cmdPath := LAUNCHCMDDIR + "/" + target.QueueLoc + ".json"
cmdPath(a, target) == QueueLoc(target)

\* pullAction, one action file: invalid syntax deletes the file, otherwise a
\* command file is written for every target and the action file is deleted
pullAction(a) ==
  /\ newActions[a] # NoFile
  /\ newActions' = [newActions EXCEPT ![a] = NoFile]
  /\ IF ~validateActionSyntax(newActions[a])
     THEN UNCHANGED <<readyCmds, matched>>
     ELSE /\ readyCmds' =
               [q \in QueueLocs |->
                  IF \E t \in Targets(newActions[a]) : cmdPath(a, t) = q
                  THEN LET t == CHOOSE t \in Targets(newActions[a]) : cmdPath(a, t) = q
                       IN [AgentName |-> t.name, ActionID |-> a,
                           Action |-> newActions[a]]
                  ELSE readyCmds[q]]
          /\ matched' = [matched EXCEPT ![a] = Cardinality(Targets(newActions[a]))]
  /\ UNCHANGED <<regDocs, regBlank, regSeen, consumers, storeVars, counterVars, aclVars,
                 extVars>>

(***************************************************************************)
(* The agent.  Process "p1" runs the command pipeline getCommands ->       *)
(* parseCommands -> runFilechecker -> sendResults; every agent process     *)
(* derives its queue location in main and publishes heartbeats.            *)
(***************************************************************************)
AgentProc == "p1"

Cmds == 1..MaxCmds

\* the two getCommands goroutines main starts, one per binding
Consumers == {"g1", "g2"}

\* make(chan ..., 10)
ChanCap == 10

\* c.Qos(2, 0, false)
Prefetch == 2

\* time.After(30 * time.Second), in units of 15 seconds
ModuleTimeout == 2

\* what the ./filechecker process does: "ok" writes its JSON and exits 0,
\* "fails" writes its JSON and exits non-zero, "nooutput" closes its output
\* without writing, "hangs" writes its JSON and never exits, "silent" never
\* writes, never closes its output and never exits
ModuleBehaviours == {"ok", "fails", "nooutput", "hangs", "silent"}

\* a message body: a command for the filechecker, a command for another
\* check, or a body that is not JSON
CommandBodies ==
  {[kind |-> "other", module |-> ""], [kind |-> "badjson", module |-> ""]}
    \cup [kind : {"filechecker"}, module : ModuleBehaviours]

NoDelivery == [state |-> "none", kind |-> "", module |-> "", tag |-> 0]

IdleAgent ==
  /\ inbox = [c \in Cmds |-> NoDelivery]
  /\ nextTag = 1
  /\ gpc = [g \in Consumers |-> "recv"]
  /\ held = [g \in Consumers |-> 0]
  /\ queued = {}
  /\ actionsChan = << >>
  /\ fCommandChan = << >>
  /\ resultChan = << >>
  /\ rpc = "idle"
  /\ cur = 0
  /\ modOut = "none"
  /\ modExit = "running"
  /\ elapsed = 0
  /\ timer = 0
  /\ agentUp = TRUE
  /\ outcome = [c \in Cmds |-> "none"]

\* the process p is running
Up(p) == started[p] /\ (p = AgentProc => agentUp)

\* regMsg.LastKeepAlive as keepAliveAgent marshals it: the regMsg it was
\* passed by value, stamped once in main
HeartbeatTime_Now(p) == wall

HeartbeatTime(p) == lastKeepAlive[p]

\* main, up to the Consume calls: the queue location is "<os>.<hostname>",
\* the queue mig.agt.<queueloc> is bound under its own name and mig.all
agentMain(p, host, os) ==
  /\ ~started[p]
  /\ started' = [started EXCEPT ![p] = TRUE]
  /\ queueLoc' = [queueLoc EXCEPT ![p] = QueueLoc([name |-> host, os |-> os])]
  /\ lastKeepAlive' = [lastKeepAlive EXCEPT ![p] = wall]
  /\ bindings' = bindings \cup
       {<<AgentQueue(queueLoc'[p]), AgentQueue(queueLoc'[p])>>,
        <<AgentQueue(queueLoc'[p]), AllKey>>}
  /\ UNCHANGED <<wall, beats, published>>
  /\ UNCHANGED <<storeVars, counterVars, aclVars, pullVars, agentVars,
                 signVars, manifestVars, moreVars>>

\* the wall clock moves, forward or, when it is set, backward
wallStep(t) ==
  /\ t # wall
  /\ wall' = t
  /\ UNCHANGED <<bindings, started, queueLoc, lastKeepAlive, beats, published>>
  /\ UNCHANGED <<storeVars, counterVars, aclVars, pullVars, agentVars,
                 signVars, manifestVars, moreVars>>

\* keepAliveAgent, one pass of the loop
keepAliveAgent(p) ==
  /\ Up(p)
  /\ Len(beats[p]) < MaxBeats
  /\ beats' = [beats EXCEPT ![p] = Append(beats[p], HeartbeatTime(p))]
  /\ published' = published \cup
       {[from |-> p, kind |-> "heartbeat", cmd |-> 0, key |-> KeepAliveKey,
         queues |-> Route(KeepAliveKey)]}
  /\ UNCHANGED <<bindings, started, queueLoc, lastKeepAlive, wall>>
  /\ UNCHANGED <<storeVars, counterVars, aclVars, pullVars, agentVars,
                 signVars, manifestVars, moreVars>>

\* a command is published to the agent's queue
brokerPublish(c, body) ==
  /\ started[AgentProc]
  /\ inbox[c].state = "none"
  /\ inbox' = [inbox EXCEPT ![c] =
                 [state |-> "ready", kind |-> body.kind,
                  module |-> body.module, tag |-> 0]]
  /\ UNCHANGED <<nextTag, gpc, held, queued, actionsChan, fCommandChan,
                 resultChan, rpc, cur, modOut, modExit, elapsed, timer,
                 agentUp, outcome>>
  /\ UNCHANGED <<storeVars, counterVars, aclVars, pullVars, brokerVars,
                 signVars, manifestVars, moreVars>>

Unacked == {c \in Cmds : inbox[c].state = "unacked"}

\* getCommands, for m := range messages: the broker delivers while fewer
\* than Prefetch deliveries of the channel are unacknowledged
getCommandsRecv(g, c) ==
  /\ Up(AgentProc)
  /\ gpc[g] = "recv"
  /\ inbox[c].state = "ready"
  /\ Cardinality(Unacked) < Prefetch
  /\ inbox' = [inbox EXCEPT ![c].state = "unacked", ![c].tag = nextTag]
  /\ nextTag' = nextTag + 1
  /\ held' = [held EXCEPT ![g] = c]
  /\ gpc' = [gpc EXCEPT ![g] = "ack"]
  /\ UNCHANGED <<queued, actionsChan, fCommandChan, resultChan, rpc, cur,
                 modOut, modExit, elapsed, timer, agentUp, outcome>>
  /\ UNCHANGED <<storeVars, counterVars, aclVars, pullVars, brokerVars,
                 signVars, manifestVars, moreVars>>

\* getCommands, m.Ack(true): multiple is true, every delivery of the channel
\* up to this tag is acknowledged
getCommandsAck(g) ==
  /\ Up(AgentProc)
  /\ gpc[g] = "ack"
  /\ inbox' = [c \in Cmds |->
                 IF inbox[c].state = "unacked" /\ inbox[c].tag <= inbox[held[g]].tag
                 THEN [inbox[c] EXCEPT !.state = "acked"]
                 ELSE inbox[c]]
  /\ gpc' = [gpc EXCEPT ![g] = "queue"]
  /\ UNCHANGED <<nextTag, held, queued, actionsChan, fCommandChan, resultChan,
                 rpc, cur, modOut, modExit, elapsed, timer, agentUp, outcome>>
  /\ UNCHANGED <<storeVars, counterVars, aclVars, pullVars, brokerVars,
                 signVars, manifestVars, moreVars>>

\* getCommands, actions <- m.Body
getCommandsQueue(g) ==
  /\ Up(AgentProc)
  /\ gpc[g] = "queue"
  /\ Len(actionsChan) < ChanCap
  /\ actionsChan' = Append(actionsChan, held[g])
  /\ queued' = queued \cup {held[g]}
  /\ held' = [held EXCEPT ![g] = 0]
  /\ gpc' = [gpc EXCEPT ![g] = "recv"]
  /\ UNCHANGED <<inbox, nextTag, fCommandChan, resultChan, rpc, cur, modOut,
                 modExit, elapsed, timer, agentUp, outcome>>
  /\ UNCHANGED <<storeVars, counterVars, aclVars, pullVars, brokerVars,
                 signVars, manifestVars, moreVars>>

\* parseCommands, one body: a body that is not JSON ends the process
\* (log.Fatal), a filechecker command is queued, any other is left there
parseCommands ==
  /\ Up(AgentProc)
  /\ actionsChan # << >>
  /\ LET c == Head(actionsChan)
     IN /\ inbox[c].kind = "filechecker" => Len(fCommandChan) < ChanCap
        /\ actionsChan' = Tail(actionsChan)
        /\ agentUp' = (inbox[c].kind # "badjson")
        /\ fCommandChan' = IF inbox[c].kind = "filechecker"
                           THEN Append(fCommandChan, c) ELSE fCommandChan
        /\ outcome' = IF inbox[c].kind = "other"
                      THEN [outcome EXCEPT ![c] = "dropped"] ELSE outcome
  /\ UNCHANGED <<inbox, nextTag, gpc, held, queued, resultChan, rpc, cur,
                 modOut, modExit, elapsed, timer>>
  /\ UNCHANGED <<storeVars, counterVars, aclVars, pullVars, brokerVars,
                 signVars, manifestVars, moreVars>>

\* runFilechecker, for migCmd := range fCommandChan up to runCmd.Start()
runFilecheckerStart ==
  /\ Up(AgentProc)
  /\ rpc = "idle"
  /\ fCommandChan # << >>
  /\ cur' = Head(fCommandChan)
  /\ fCommandChan' = Tail(fCommandChan)
  /\ rpc' = "decode"
  /\ modOut' = "none"
  /\ modExit' = "running"
  /\ elapsed' = 0
  /\ timer' = 0
  /\ UNCHANGED <<inbox, nextTag, gpc, held, queued, actionsChan, resultChan,
                 agentUp, outcome>>
  /\ UNCHANGED <<storeVars, counterVars, aclVars, pullVars, brokerVars,
                 signVars, manifestVars, moreVars>>

\* the module process writes its JSON, or closes its output without any
moduleWrite ==
  /\ rpc \in {"decode", "select"}
  /\ modOut = "none"
  /\ inbox[cur].module # "silent"
  /\ modOut' = IF inbox[cur].module = "nooutput" THEN "eof" ELSE "json"
  /\ UNCHANGED <<inbox, nextTag, gpc, held, queued, actionsChan, fCommandChan,
                 resultChan, rpc, cur, modExit, elapsed, timer, agentUp, outcome>>
  /\ UNCHANGED <<storeVars, counterVars, aclVars, pullVars, brokerVars,
                 signVars, manifestVars, moreVars>>

\* the module process exits
moduleExit ==
  /\ rpc \in {"decode", "select"}
  /\ modOut # "none"
  /\ modExit = "running"
  /\ inbox[cur].module \in {"ok", "fails", "nooutput"}
  /\ modExit' = IF inbox[cur].module = "ok" THEN "zero" ELSE "nonzero"
  /\ UNCHANGED <<inbox, nextTag, gpc, held, queued, actionsChan, fCommandChan,
                 resultChan, rpc, cur, modOut, elapsed, timer, agentUp, outcome>>
  /\ UNCHANGED <<storeVars, counterVars, aclVars, pullVars, brokerVars,
                 signVars, manifestVars, moreVars>>

\* time passes while runFilechecker waits; in the select the timer fires
\* no later than ModuleTimeout after it was armed
moduleTick ==
  /\ rpc \in {"decode", "select"}
  /\ Up(AgentProc)
  /\ elapsed < MaxElapsed
  /\ rpc = "select" => timer < ModuleTimeout
  /\ elapsed' = elapsed + 1
  /\ timer' = IF rpc = "select" THEN timer + 1 ELSE timer
  /\ UNCHANGED <<inbox, nextTag, gpc, held, queued, actionsChan, fCommandChan,
                 resultChan, rpc, cur, modOut, modExit, agentUp, outcome>>
  /\ UNCHANGED <<storeVars, counterVars, aclVars, pullVars, brokerVars,
                 signVars, manifestVars, moreVars>>

\* runFilechecker, json.NewDecoder(cmdout).Decode(&results): returns once the
\* module has written a value or closed its output; an error ends the
\* process (log.Fatal)
runFilecheckerDecode ==
  /\ Up(AgentProc)
  /\ rpc = "decode"
  /\ modOut # "none"
  /\ IF modOut = "json"
     THEN /\ rpc' = "select"
          /\ timer' = 0
          /\ UNCHANGED <<agentUp, outcome>>
     ELSE /\ agentUp' = FALSE
          /\ outcome' = [outcome EXCEPT ![cur] = "failed"]
          /\ UNCHANGED <<rpc, timer>>
  /\ UNCHANGED <<inbox, nextTag, gpc, held, queued, actionsChan, fCommandChan,
                 resultChan, cur, modOut, modExit, elapsed>>
  /\ UNCHANGED <<storeVars, counterVars, aclVars, pullVars, brokerVars,
                 signVars, manifestVars, moreVars>>

\* runFilechecker, case err := <-cmdDone: a non-nil error ends the process
\* (log.Fatal), otherwise the command goes to resultChan
runFilecheckerDone ==
  /\ Up(AgentProc)
  /\ rpc = "select"
  /\ modExit \in {"zero", "nonzero"}
  /\ IF modExit = "zero"
     THEN /\ Len(resultChan) < ChanCap
          /\ resultChan' = Append(resultChan, cur)
          /\ outcome' = [outcome EXCEPT ![cur] = "success"]
          /\ rpc' = "idle"
          /\ UNCHANGED agentUp
     ELSE /\ agentUp' = FALSE
          /\ outcome' = [outcome EXCEPT ![cur] = "failed"]
          /\ UNCHANGED <<resultChan, rpc>>
  /\ UNCHANGED <<inbox, nextTag, gpc, held, queued, actionsChan, fCommandChan,
                 cur, modOut, modExit, elapsed, timer>>
  /\ UNCHANGED <<storeVars, counterVars, aclVars, pullVars, brokerVars,
                 signVars, manifestVars, moreVars>>

\* runFilechecker, case <-time.After(30 * time.Second): the module is killed
\* and log.Fatal ends the process
runFilecheckerTimeout ==
  /\ Up(AgentProc)
  /\ rpc = "select"
  /\ timer >= ModuleTimeout
  /\ modExit' = "killed"
  /\ agentUp' = FALSE
  /\ outcome' = [outcome EXCEPT ![cur] = "timeout"]
  /\ UNCHANGED <<inbox, nextTag, gpc, held, queued, actionsChan, fCommandChan,
                 resultChan, rpc, cur, modOut, elapsed, timer>>
  /\ UNCHANGED <<storeVars, counterVars, aclVars, pullVars, brokerVars,
                 signVars, manifestVars, moreVars>>

\* sendResults, one result: published under mig.agents.<queueloc>
sendResults ==
  /\ Up(AgentProc)
  /\ resultChan # << >>
  /\ resultChan' = Tail(resultChan)
  /\ published' = published \cup
       {[from |-> AgentProc, kind |-> "result", cmd |-> Head(resultChan),
         key |-> ResultKey(queueLoc[AgentProc]),
         queues |-> Route(ResultKey(queueLoc[AgentProc]))]}
  /\ UNCHANGED <<inbox, nextTag, gpc, held, queued, actionsChan, fCommandChan,
                 rpc, cur, modOut, modExit, elapsed, timer, agentUp, outcome>>
  /\ UNCHANGED <<bindings, started, queueLoc, lastKeepAlive, wall, beats>>
  /\ UNCHANGED <<storeVars, counterVars, aclVars, pullVars, signVars,
                 manifestVars, moreVars>>

(***************************************************************************)
(* Signing an action and verifying it.  A string is the sequence of its    *)
(* pieces.  A time.Time is an instant with the offset and the abbreviation *)
(* of the zone of its location; the abbreviation is empty for a location   *)
(* made from an offset alone.                                              *)
(***************************************************************************)
UTC == [off |-> 0, abbr |-> "UTC"]

\* the local zones of the hosts: two of them share an offset
LocalZones == {UTC, [off |-> 1, abbr |-> "CET"], [off |-> 1, abbr |-> "WAT"]}

\* the times of an action as built or loaded: an instant, in some offset
ActionTimes == [instant : 0..MaxInstant, off : 0..MaxOffset]

\* the fields of a struct in the order of their declaration
ParameterFields == {<< >>, <<"name", "path">>, <<"path", "name">>}

SignOperations ==
  SeqsUpTo([module : {"file"}, parameters : ParameterFields], 1)

SignActions ==
  [name : {"n1", "n2"}, target : {"t1", "t2"}, validfrom : ActionTimes,
   expireafter : ActionTimes, operations : SignOperations]

\* the keys of the signer's secret keyring and of the verifier's keyring
Secring == {"bob", "mallory"}

Pubring == {"bob", "carol"}

NoSig == [data |-> << >>, key |-> "", err |-> FALSE]

\* how Time.String and RFC3339 write an offset
OffsetName(off) ==
  CASE off = 0 -> "+0000"
    [] off = 1 -> "+0100"
    [] OTHER -> "+0200"

\* Time.String(): "2006-01-02 15:04:05.999999999 -0700 MST", the reading of
\* the clock in the zone, the offset, and the abbreviation of the zone, for
\* which the offset stands when the zone has no name
TimeString(t) ==
  <<t.instant + t.off, OffsetName(t.off),
    IF t.abbr = "" THEN OffsetName(t.off) ELSE t.abbr>>

\* Time.MarshalJSON: RFC3339, the reading of the clock and the offset
MarshalTime(t) == [clock |-> t.instant + t.off, off |-> t.off]

\* Time.UnmarshalJSON on a host whose local zone is local: "Z" gives UTC, an
\* offset the local zone has at that time gives the local location, any
\* other offset gives a location made from the offset
ParseTime(j, local) ==
  [instant |-> j.clock - j.off,
   off |-> j.off,
   abbr |-> IF j.off = 0 THEN "UTC"
            ELSE IF local.off = j.off THEN local.abbr ELSE ""]

\* json.Marshal of map keys: sorted
KeyOrder == <<"name", "path">>

SortKeys(S) == SelectSeq(KeyOrder, LAMBDA k : k \in S)

\* json.Unmarshal into Parameters interface{}: a map, here its keys
ParseParameters(j) == {j[i] : i \in 1..Len(j)}

\* json.Marshal of operations whose Parameters are structs: the fields in
\* the order of their declaration
MarshalOperations(ops) ==
  [i \in 1..Len(ops) |->
     [module |-> ops[i].module, parameters |-> ops[i].parameters]]

\* json.Marshal of operations whose Parameters are maps, as they are once
\* parsed: the keys sorted
MarshalParsedOperations(ops) ==
  [i \in 1..Len(ops) |->
     [module |-> ops[i].module, parameters |-> SortKeys(ops[i].parameters)]]

ParseOperations(j) ==
  [i \in 1..Len(j) |->
     [module |-> j[i].module, parameters |-> ParseParameters(j[i].parameters)]]

\* a.ToTempFile(): json.Marshal of the action
MarshalAction(a) ==
  [name |-> a.name, target |-> a.target,
   validfrom |-> MarshalTime(a.validfrom),
   expireafter |-> MarshalTime(a.expireafter),
   operations |-> MarshalOperations(a.operations)]

\* ActionFromFile: json.Unmarshal into an Action
ActionFromFile(j, local) ==
  [name |-> j.name, target |-> j.target,
   validfrom |-> ParseTime(j.validfrom, local),
   expireafter |-> ParseTime(j.expireafter, local),
   operations |-> ParseOperations(j.operations)]

\* Action.String, of an action read from JSON
String(a) ==
  <<"name=", a.name, "; ",
    "target=", a.target, "; ",
    "validfrom=", TimeString(a.validfrom), "; ",
    "expireafter=", TimeString(a.expireafter), "; ",
    "operations='", MarshalParsedOperations(a.operations), "';">>

\* sign.Sign: a detached signature of data by the key, an error when the
\* key is not in the secret keyring
Sign(data, keyid) ==
  IF keyid \in Secring THEN [data |-> data, key |-> keyid, err |-> FALSE]
  ELSE [data |-> << >>, key |-> "", err |-> TRUE]

\* verify.Verify: the signature is one of a key of the keyring over data
Verify(data, s) == s.key \in Pubring /\ s.data = data

IdleSign ==
  /\ sAction = [name |-> "n1", target |-> "t1",
                validfrom |-> [instant |-> 0, off |-> 0],
                expireafter |-> [instant |-> 0, off |-> 0],
                operations |-> << >>]
  /\ signerZone = UTC
  /\ verifierZone = UTC
  /\ sKey = "bob"
  /\ sSig = NoSig
  /\ verified = "none"

\* Client.SignAction: the action is written to a file, read back, and the
\* action read back is signed
SignAction ==
  /\ sSig = NoSig
  /\ sSig' = Sign(String(ActionFromFile(MarshalAction(sAction), signerZone)), sKey)
  /\ UNCHANGED <<sAction, signerZone, verifierZone, sKey, verified>>
  /\ UNCHANGED <<storeVars, counterVars, aclVars, pullVars, agentVars,
                 brokerVars, manifestVars, moreVars>>

\* the signed action is sent as JSON, parsed by the receiver, and
\* Action.VerifySignatures recomputes the string from the parsed action
VerifySignedAction ==
  /\ sSig # NoSig
  /\ ~sSig.err
  /\ verified = "none"
  /\ verified' =
       IF Verify(String(ActionFromFile(MarshalAction(sAction), verifierZone)), sSig)
       THEN "ok" ELSE "invalid"
  /\ UNCHANGED <<sAction, signerZone, verifierZone, sKey, sSig>>
  /\ UNCHANGED <<storeVars, counterVars, aclVars, pullVars, agentVars,
                 brokerVars, manifestVars, moreVars>>

(***************************************************************************)
(* ManifestResponse.VerifySignatures.                                      *)
(***************************************************************************)
\* the keys that may have signed a manifest, and those of the keyring
ManifestKeys == {"k1", "k2", "kx"}

TrustedKeys == {"k1", "k2"}

\* a signature: made by a key over the manifest's entries or over other
\* data, or a token that is no signature
ManifestSignatures ==
  [key : ManifestKeys, data : {"entries", "other"}]
    \cup {[key |-> "", data |-> "malformed"]}

\* pgp.Verify(string(buf), x, keyring)
ManifestVerify(x) ==
  [err |-> x.data = "malformed",
   valid |-> x.key \in TrustedKeys /\ x.data = "entries"]

\* for _, x := range sigs: an error returns the count reached so far
RECURSIVE CountValid(_, _, _)
CountValid(sigs, i, validcnt) ==
  IF i > Len(sigs) THEN [validcnt |-> validcnt, err |-> FALSE]
  ELSE IF ManifestVerify(sigs[i]).err THEN [validcnt |-> validcnt, err |-> TRUE]
  ELSE CountValid(sigs, i + 1,
                  IF ManifestVerify(sigs[i]).valid THEN validcnt + 1 ELSE validcnt)

IdleManifest ==
  /\ mSigs = << >>
  /\ mInput = << >>
  /\ mCount = -1
  /\ mErr = FALSE

\* ManifestResponse.VerifySignatures: the signatures are copied out and
\* cleared from the response, then counted
ManifestVerifySignatures ==
  /\ mCount = -1
  /\ mSigs' = << >>
  /\ mCount' = CountValid(mSigs, 1, 0).validcnt
  /\ mErr' = CountValid(mSigs, 1, 0).err
  /\ UNCHANGED mInput
  /\ UNCHANGED <<storeVars, counterVars, aclVars, pullVars, agentVars,
                 brokerVars, signVars, moreVars>>

(***************************************************************************)
(* isAgentAuthorized.  A whitelist line is a regular expression: the       *)
(* literal text of one queue location, the text of an operating system     *)
(* alone (a prefix of queue locations), ".*", or text that does not        *)
(* compile.                                                                *)
(***************************************************************************)
WhitelistLines ==
  [kind : {"literal"}, loc : QueueLocs]
    \cup [kind : {"prefix"}, loc : {<<o>> : o \in OSes}]
    \cup [kind : {"any", "bad"}, loc : {<< >>}]

\* regexp.Compile("^" + line + "$") returns an error
CompileFails(line) == line.kind = "bad"

\* re.MatchString(loc) for re compiled from "^" + line + "$"
MatchString(line, loc) ==
  CASE line.kind = "literal" -> loc = line.loc
    [] line.kind = "prefix" -> FALSE
    [] line.kind = "any" -> TRUE
    [] OTHER -> FALSE

\* the scanner loop from line i on: the first line that does not compile
\* panics, the first line that matches returns ok
RECURSIVE ScanWhitelist(_, _, _)
ScanWhitelist(lines, i, loc) ==
  IF i > Len(lines) THEN [ok |-> FALSE, err |-> FALSE]
  ELSE IF CompileFails(lines[i]) THEN [ok |-> FALSE, err |-> TRUE]
  ELSE IF MatchString(lines[i], loc) THEN [ok |-> TRUE, err |-> FALSE]
  ELSE ScanWhitelist(lines, i + 1, loc)

\* the results of isAgentAuthorized: ok and err are named results, so the
\* bare return of the bypass mode returns their zero values
AgentAuthorized(isSet, exists, lines, loc) ==
  IF ~isSet THEN [ok |-> FALSE, err |-> FALSE]
  ELSE IF ~exists THEN [ok |-> FALSE, err |-> TRUE]
  ELSE ScanWhitelist(lines, 1, loc)

IdleWhitelist ==
  /\ wlSet = FALSE
  /\ wlExists = FALSE
  /\ wlLines = << >>
  /\ wlLoc = << >>
  /\ wlOk = FALSE
  /\ wlErr = FALSE
  /\ wlDone = FALSE

isAgentAuthorized ==
  /\ ~wlDone
  /\ wlOk' = AgentAuthorized(wlSet, wlExists, wlLines, wlLoc).ok
  /\ wlErr' = AgentAuthorized(wlSet, wlExists, wlLines, wlLoc).err
  /\ wlDone' = TRUE
  /\ UNCHANGED <<wlSet, wlExists, wlLines, wlLoc>>
  /\ UNCHANGED <<storeVars, counterVars, aclVars, pullVars, agentVars,
                 brokerVars, signVars, manifestVars, hbVars, relVars,
                 filterVars, statVars>>


(***************************************************************************)
(* UploadHeartbeat.  A string field is modelled by its length, the mode by *)
(* its text, the environment by the set of its populated fields.           *)
(***************************************************************************)
timeToExpireHeartbeat == 5
NameLimit == 1024
VersionLimit == 128

StatusOK == 200
StatusBadRequest == 400
StatusUnauthorized == 401
StatusInternalServerError == 500

EnvFields == {"init", "ident", "os", "arch", "publicIP"}

Heartbeats ==
  [name : {0, 1, NameLimit, NameLimit + 1},
   mode : {"", "daemon", "checkin", "other"},
   version : {0, 1, VersionLimit, VersionLimit + 1},
   queueLoc : {0, 1},
   pid : {0, 1},
   env : SUBSET EnvFields]

\* Heartbeat{}: what ServeHTTP holds when the body did not decode
ZeroHeartbeat ==
  [name |-> 0, mode |-> "", version |-> 0, queueLoc |-> 0, pid |-> 0, env |-> {}]

\* validate, first part: some entry of missingFields is true
MissingFields(hb) ==
  \/ hb.name = 0
  \/ hb.mode = ""
  \/ hb.version = 0
  \/ hb.queueLoc = 0
  \/ hb.pid = 0
  \/ hb.env # EnvFields

isExpired(age) == age > timeToExpireHeartbeat
hasBadMode(hb) == hb.mode # "" /\ hb.mode # "daemon" /\ hb.mode # "checkin"
nameTooLong(hb) == hb.name > NameLimit
versionTooLong(hb) == hb.version > VersionLimit

\* validate, second part: errorConditions is keyed by the conditions' values,
\* so it holds the key true iff some condition is true
ErrorConditions(hb, age) ==
  {isExpired(age), hasBadMode(hb), nameTooLong(hb), versionTooLong(hb)}

\* validate returns an error
validate(hb, age) == MissingFields(hb) \/ TRUE \in ErrorConditions(hb, age)

\* ServeHTTP with Authenticate ahead of validate
ServeHTTP_AuthFirst(decodable, hb, age, authOk, persistOk) ==
  IF ~decodable
  THEN [status |-> StatusBadRequest, auth |-> FALSE, persist |-> FALSE]
  ELSE IF ~authOk
  THEN [status |-> StatusUnauthorized, auth |-> TRUE, persist |-> FALSE]
  ELSE IF validate(hb, age)
  THEN [status |-> StatusBadRequest, auth |-> TRUE, persist |-> FALSE]
  ELSE IF ~persistOk
  THEN [status |-> StatusInternalServerError, auth |-> TRUE, persist |-> TRUE]
  ELSE [status |-> StatusOK, auth |-> TRUE, persist |-> TRUE]

\* ServeHTTP: the status written and the calls made
ServeHTTP(decodable, hb, age, authOk, persistOk) ==
  IF ~decodable
  THEN [status |-> StatusBadRequest, auth |-> FALSE, persist |-> FALSE]
  ELSE IF validate(hb, age)
  THEN [status |-> StatusBadRequest, auth |-> FALSE, persist |-> FALSE]
  ELSE IF ~authOk
  THEN [status |-> StatusUnauthorized, auth |-> TRUE, persist |-> FALSE]
  ELSE IF ~persistOk
  THEN [status |-> StatusInternalServerError, auth |-> TRUE, persist |-> TRUE]
  ELSE [status |-> StatusOK, auth |-> TRUE, persist |-> TRUE]

IdleUpload ==
  /\ hbDecodable = FALSE
  /\ hbReq = ZeroHeartbeat
  /\ hbAge = 0
  /\ hbAuthOk = FALSE
  /\ hbPersistOk = FALSE
  /\ hbStatus = 0
  /\ hbAuthCalled = FALSE
  /\ hbPersistCalled = FALSE

UploadHeartbeat ==
  /\ hbStatus = 0
  /\ LET r == ServeHTTP(hbDecodable, hbReq, hbAge, hbAuthOk, hbPersistOk)
     IN /\ hbStatus' = r.status
        /\ hbAuthCalled' = r.auth
        /\ hbPersistCalled' = r.persist
  /\ UNCHANGED <<hbDecodable, hbReq, hbAge, hbAuthOk, hbPersistOk>>
  /\ UNCHANGED <<storeVars, counterVars, aclVars, pullVars, agentVars,
                 brokerVars, signVars, manifestVars, authVars, relVars,
                 filterVars, statVars>>


(***************************************************************************)
(* InsertAction, InsertOrUpdateAction and SetupRunnableActionsForAgent     *)
(* with the agent_action_relation table.  Every db.c.Exec and db.c.Query   *)
(* is a statement of its own: none of the three functions opens a          *)
(* transaction, so the statements of concurrent calls interleave.  The     *)
(* actions table holds one row per id.                                     *)
(***************************************************************************)
DBClients == {"c1", "c2"}

\* a.Target, a condition on the agents table: one that does not evaluate, or
\* the agents it selects
ActionTargets ==
  [valid : {TRUE}, agents : SUBSET Agents] \cup [valid : {FALSE}, agents : {{}}]

\* the rows callers hand in; the two differ in every column
InputRows ==
  {[status |-> "pending", validfrom |-> 0, expireafter |-> MaxTime],
   [status |-> "inflight", validfrom |-> 1, expireafter |-> 1]}

NoCall ==
  [op |-> "none", id |-> 0, target |-> [valid |-> FALSE, agents |-> {}],
   row |-> NoRow, agent |-> 0]

DBCalls ==
  [op : {"InsertAction", "InsertOrUpdateAction"}, id : ActionIds,
   target : ActionTargets, row : InputRows, agent : {0}]
    \cup [op : {"SetupRunnableActionsForAgent"}, id : {0},
          target : {NoCall.target}, row : {NoRow}, agent : Agents]

NoResult == [inserted |-> FALSE, err |-> FALSE, actions |-> {}]

NoRelation == [g \in Agents |-> "none"]

\* insert into agent_action_relation (agent_id, action_id) select A.id, $1
\* from agents A where (target): retrieved defaults to false
Relate(rel, a, target) ==
  [rel EXCEPT ![a] = [g \in Agents |-> IF g \in target.agents THEN "new" ELSE @[g]]]

\* select ... from actions A1 where exists (select 1 from
\* agent_action_relation R where R.action_id = A1.id and R.agent_id = $1 and
\* not R.retrieved)
Unretrieved(tbl, rel, g) ==
  {a \in ActionIds : tbl[a].status # "none" /\ rel[a][g] = "new"}

\* update agent_action_relation set retrieved = true where agent_id = $1 and
\* action_id in (ids)
MarkRetrieved(rel, g, ids) ==
  [a \in ActionIds |->
     IF a \in ids /\ rel[a][g] # "none" THEN [rel[a] EXCEPT ![g] = "retrieved"]
     ELSE rel[a]]

storeRest ==
  <<commands, now, pc, callNow, cand, wr, ret, base, after, writers, overlap,
    retCount>>

IdleRelation ==
  /\ relation = [a \in ActionIds |-> NoRelation]
  /\ dpc = [c \in DBClients |-> "idle"]
  /\ dcall = [c \in DBClients |-> NoCall]
  /\ dnew = [c \in DBClients |-> FALSE]
  /\ dsel = [c \in DBClients |-> {}]
  /\ dres = [c \in DBClients |-> NoResult]
  /\ handed = [a \in ActionIds |-> [g \in Agents |-> 0]]
  /\ dcalls = 0

\* a client calls one of the three functions
DBCall(c, call) ==
  /\ dpc[c] \in {"idle", "returned"}
  /\ dcalls < MaxDBCalls
  /\ dcalls' = dcalls + 1
  /\ dcall' = [dcall EXCEPT ![c] = call]
  /\ dpc' = [dpc EXCEPT ![c] =
               CASE call.op = "InsertAction" -> "insert"
                 [] call.op = "InsertOrUpdateAction" -> "lookup"
                 [] OTHER -> "select"]
  /\ dnew' = [dnew EXCEPT ![c] = FALSE]
  /\ dsel' = [dsel EXCEPT ![c] = {}]
  /\ dres' = [dres EXCEPT ![c] = NoResult]
  /\ UNCHANGED <<actions, relation, handed>>
  /\ UNCHANGED <<storeRest, counterVars, aclVars, pullVars, agentVars,
                 brokerVars, signVars, manifestVars, authVars, hbVars,
                 filterVars, statVars>>

\* InsertOrUpdateAction: SELECT id FROM actions WHERE id=$1, then the branch
InsertOrUpdateActionSelect(c) ==
  /\ dpc[c] = "lookup"
  /\ LET found == actions[dcall[c].id].status # "none"
     IN /\ dnew' = [dnew EXCEPT ![c] = ~found]
        /\ dres' = [dres EXCEPT ![c].inserted = ~found]
        /\ dpc' = [dpc EXCEPT ![c] = IF found THEN "update" ELSE "insert"]
  /\ UNCHANGED <<actions, relation, dcall, dsel, handed, dcalls>>
  /\ UNCHANGED <<storeRest, counterVars, aclVars, pullVars, agentVars,
                 brokerVars, signVars, manifestVars, authVars, hbVars,
                 filterVars, statVars>>

\* UpdateAction, called by InsertOrUpdateAction
UpdateActionExec(c) ==
  /\ dpc[c] = "update"
  /\ actions' = UpdateAction(actions, dcall[c].id, dcall[c].row.status)
  /\ dpc' = [dpc EXCEPT ![c] = "returned"]
  /\ UNCHANGED <<relation, dcall, dnew, dsel, dres, handed, dcalls>>
  /\ UNCHANGED <<storeRest, counterVars, aclVars, pullVars, agentVars,
                 brokerVars, signVars, manifestVars, authVars, hbVars,
                 filterVars, statVars>>

\* InsertAction, first Exec: INSERT INTO actions; a row with the id makes the
\* statement fail and InsertAction return the error
InsertActionInsert(c) ==
  /\ dpc[c] = "insert"
  /\ IF actions[dcall[c].id].status # "none"
     THEN /\ dres' = [dres EXCEPT ![c].err = TRUE]
          /\ dpc' = [dpc EXCEPT ![c] = "returned"]
          /\ dnew' = [dnew EXCEPT ![c] = FALSE]
          /\ UNCHANGED actions
     ELSE /\ actions' = InsertAction(actions, dcall[c].id, dcall[c].row)
          /\ dpc' = [dpc EXCEPT ![c] = "relate"]
          /\ dnew' = [dnew EXCEPT ![c] = TRUE]
          /\ UNCHANGED dres
  /\ UNCHANGED <<relation, dcall, dsel, handed, dcalls>>
  /\ UNCHANGED <<storeRest, counterVars, aclVars, pullVars, agentVars,
                 brokerVars, signVars, manifestVars, authVars, hbVars,
                 filterVars, statVars>>

\* InsertAction, second Exec: insert into agent_action_relation; a target
\* that does not evaluate makes the statement fail and InsertAction return
\* the error
InsertActionRelate(c) ==
  /\ dpc[c] = "relate"
  /\ IF dcall[c].target.valid
     THEN /\ relation' = Relate(relation, dcall[c].id, dcall[c].target)
          /\ UNCHANGED dres
     ELSE /\ dres' = [dres EXCEPT ![c].err = TRUE]
          /\ UNCHANGED relation
  /\ dpc' = [dpc EXCEPT ![c] = "returned"]
  /\ UNCHANGED <<actions, dcall, dnew, dsel, handed, dcalls>>
  /\ UNCHANGED <<storeRest, counterVars, aclVars, pullVars, agentVars,
                 brokerVars, signVars, manifestVars, authVars, hbVars,
                 filterVars, statVars>>

\* SetupRunnableActionsForAgent, the Query and the loop over its rows
SetupRunnableActionsForAgentSelect(c) ==
  /\ dpc[c] = "select"
  /\ dsel' = [dsel EXCEPT ![c] = Unretrieved(actions, relation, dcall[c].agent)]
  /\ dpc' = [dpc EXCEPT ![c] = "mark"]
  /\ UNCHANGED <<actions, relation, dcall, dnew, dres, handed, dcalls>>
  /\ UNCHANGED <<storeRest, counterVars, aclVars, pullVars, agentVars,
                 brokerVars, signVars, manifestVars, authVars, hbVars,
                 filterVars, statVars>>

\* SetupRunnableActionsForAgent, the Exec: with no id the statement reads
\* "action_id in ()", which the database rejects, and the function returns
\* the empty list with the error
SetupRunnableActionsForAgentUpdate(c) ==
  /\ dpc[c] = "mark"
  /\ IF dsel[c] = {}
     THEN /\ dres' = [dres EXCEPT ![c] = [@ EXCEPT !.err = TRUE, !.actions = {}]]
          /\ UNCHANGED <<relation, handed>>
     ELSE /\ relation' = MarkRetrieved(relation, dcall[c].agent, dsel[c])
          /\ dres' = [dres EXCEPT ![c].actions = dsel[c]]
          /\ handed' = [a \in ActionIds |->
                          IF a \in dsel[c]
                          THEN [handed[a] EXCEPT ![dcall[c].agent] = @ + 1]
                          ELSE handed[a]]
  /\ dpc' = [dpc EXCEPT ![c] = "returned"]
  /\ UNCHANGED <<actions, dcall, dnew, dsel, dcalls>>
  /\ UNCHANGED <<storeRest, counterVars, aclVars, pullVars, agentVars,
                 brokerVars, signVars, manifestVars, authVars, hbVars,
                 filterVars, statVars>>


(***************************************************************************)
(* filterString.  A token of the filter is "|", "grep", "-v" or any other  *)
(* text, which is read as a POSIX regular expression: one that does not    *)
(* compile, or the set of input strings it matches.                        *)
(***************************************************************************)
FilterInputs == {"s1", "s2"}

FilterPatterns ==
  [tok : {"pattern"}, valid : {TRUE}, matches : SUBSET FilterInputs]
    \cup [tok : {"pattern"}, valid : {FALSE}, matches : {{}}]

FilterTokens ==
  [tok : {"|", "grep", "-v"}, valid : {TRUE}, matches : {{}}] \cup FilterPatterns

modeNull == 1
modePipe == 2
modeGrep == 4
modeInverseGrep == 8

\* the loop of filterString from token i on, in the given mode; a panic is
\* recovered into err
RECURSIVE FilterLoop(_, _, _, _)
FilterLoop(input, filter, i, mode) ==
  IF i > Len(filter) THEN [output |-> input, err |-> FALSE]
  ELSE LET comp == filter[i]
           panic == [output |-> "", err |-> TRUE]
       IN CASE comp.tok = "|" ->
                 IF mode # modeNull THEN panic
                 ELSE FilterLoop(input, filter, i + 1, modePipe)
            [] comp.tok = "grep" ->
                 IF mode # modePipe THEN panic
                 ELSE FilterLoop(input, filter, i + 1, modeGrep)
            [] comp.tok = "-v" ->
                 IF mode # modeGrep THEN panic
                 ELSE FilterLoop(input, filter, i + 1, modeInverseGrep)
            [] OTHER ->
                 IF mode = modeNull THEN panic
                 ELSE IF mode = modeGrep \/ mode = modeInverseGrep
                 THEN IF ~comp.valid THEN panic
                      ELSE IF input \in comp.matches
                      THEN IF mode = modeInverseGrep
                           THEN [output |-> "", err |-> FALSE]
                           ELSE FilterLoop(input, filter, i + 1, modeNull)
                      ELSE IF mode = modeGrep
                           THEN [output |-> "", err |-> FALSE]
                           ELSE FilterLoop(input, filter, i + 1, modeNull)
                 ELSE panic

filterString(input, filter) == FilterLoop(input, filter, 1, modeNull)

IdleFilter ==
  /\ fInput = ""
  /\ fFilter = << >>
  /\ fOutput = ""
  /\ fErr = FALSE
  /\ fDone = FALSE

filterStringCall ==
  /\ ~fDone
  /\ fOutput' = filterString(fInput, fFilter).output
  /\ fErr' = filterString(fInput, fFilter).err
  /\ fDone' = TRUE
  /\ UNCHANGED <<fInput, fFilter>>
  /\ UNCHANGED <<storeVars, counterVars, aclVars, pullVars, agentVars,
                 brokerVars, signVars, manifestVars, authVars, hbVars, relVars,
                 statVars>>


(***************************************************************************)
(* The filechecker's counters.  A check is its testcode and the files its  *)
(* path matches; the walk hands every file to evaluateFile once.  Every    *)
(* check holds one bit, so a bitmask is the set of the testcodes in it.    *)
(***************************************************************************)
checkRegex == 1
checkFilename == 2
checkMD5 == 4
checkSHA1 == 8

Files == 1..MaxFiles

HashCodes == {checkMD5, checkSHA1}

Filechecks ==
  [testcode : {checkRegex, checkFilename} \cup HashCodes, files : SUBSET Files,
   filecount : {0}]

\* evaluateFile: the checks of the interested list whose path matches the file
activechecks(file, cl) == {id \in 1..Len(cl) : file \in cl[id].files}

checkBitmask(file, cl) == {cl[id].testcode : id \in activechecks(file, cl)}

\* inspectFile: what one inspected file adds to the filecount of check id.
\* matchRegexOnFile and matchRegexOnName count the file for the checks of
\* their ReList; verifyHash, called once per hash type of the bitmask, counts
\* it for every active check
inspectFile(id, file, cl) ==
  (IF cl[id].testcode = checkRegex THEN 1 ELSE 0)
    + (IF cl[id].testcode = checkFilename THEN 1 ELSE 0)
    + Cardinality(HashCodes \cap checkBitmask(file, cl))

\* evaluateFile: the file is opened and inspected
Inspect(file, cl, openable) == activechecks(file, cl) # {} /\ file \in openable

\* the filecount of check id after the files 1..f were evaluated
RECURSIVE FileCount(_, _, _, _)
FileCount(id, cl, openable, f) ==
  IF f = 0 THEN 0
  ELSE FileCount(id, cl, openable, f - 1)
         + (IF Inspect(f, cl, openable) /\ id \in activechecks(f, cl)
            THEN inspectFile(id, f, cl) ELSE 0)

IdleFilechecker ==
  /\ stats = [Checkcount |-> 0, Filescount |-> 0, Openfailed |-> 0]
  /\ checklist = << >>
  /\ inspected = {}
  /\ runs = 0

\* Runner.Run: the checklist is made anew, the files are walked, stats is the
\* package variable and is not reset; evaluateFile adds to Filescount after
\* inspectFile and again after Close
Run(cl, openable) ==
  /\ runs < MaxRuns
  /\ runs' = runs + 1
  /\ LET done == {f \in Files : Inspect(f, cl, openable)}
         failed == {f \in Files : activechecks(f, cl) # {} /\ f \notin openable}
     IN /\ inspected' = done
        /\ stats' = [Checkcount |-> stats.Checkcount + Len(cl),
                     Filescount |-> stats.Filescount + 2 * Cardinality(done),
                     Openfailed |-> stats.Openfailed + Cardinality(failed)]
  /\ checklist' =
       [id \in 1..Len(cl) |->
          [cl[id] EXCEPT !.filecount = FileCount(id, cl, openable, MaxFiles)]]
  /\ UNCHANGED <<storeVars, counterVars, aclVars, pullVars, agentVars,
                 brokerVars, signVars, manifestVars, authVars, hbVars, relVars,
                 filterVars>>


(***************************************************************************)
(* Specifications.                                                         *)
(***************************************************************************)
IdleMore ==
  IdleWhitelist /\ IdleUpload /\ IdleRelation /\ IdleFilter /\ IdleFilechecker

IdleExt == IdleBroker /\ IdleAgent /\ IdleSign /\ IdleManifest /\ IdleMore

Init == InitStore /\ IdleCounters /\ IdleACL /\ IdlePull /\ IdleExt

Next ==
  \/ Tick
  \/ \E a \in ActionIds, vf \in Times, ea \in Times : NewAction(a, vf, ea)
  \/ SetupRunnableActionsBegin("s1")
  \/ \E a \in ActionIds : SetupRunnableActionsRow("s1", a)
  \/ SetupRunnableActionsCommit("s1")
  \/ SetupRunnableActionsReturn("s1")
  \/ \E a \in ActionIds, S \in SUBSET Agents : processNewAction(a, S)
  \/ \E a \in ActionIds : sendCommands(a)
  \/ \E a \in ActionIds, g \in Agents, s \in {StatusSuccess, StatusFailed, StatusTimeout} :
       terminateCommand(a, g, s)
  \/ \E a \in ActionIds, g \in Agents : expireCommands(a, g)
  \/ \E a \in ActionIds : updateAction(a)
  \/ \E a \in ActionIds : cancelAction(a)
  \/ \E a \in ActionIds : expireAction(a)

Spec == Init /\ [][Next]_vars

NextConcurrent ==
  \/ Tick
  \/ \E a \in ActionIds, vf \in Times, ea \in Times : NewAction(a, vf, ea)
  \/ \E p \in Schedulers : SetupRunnableActionsBegin(p)
  \/ \E p \in Schedulers, a \in ActionIds : SetupRunnableActionsRow(p, a)
  \/ \E p \in Schedulers : SetupRunnableActionsCommit(p)
  \/ \E p \in Schedulers : SetupRunnableActionsAbort(p)
  \/ \E p \in Schedulers : SetupRunnableActionsReturn(p)
  \/ \E a \in ActionIds : cancelAction(a)

SpecConcurrent == Init /\ [][NextConcurrent]_vars

InitCounters ==
  /\ InitStore /\ IdleACL /\ IdlePull /\ IdleExt
  /\ cmdCount \in [CommandStatuses -> 0..MaxCount]
  /\ counters = ZeroCounters
  /\ ctrPhase = "input"

SpecCounters == InitCounters /\ [][GetActionCountersCall]_vars

InitACL ==
  /\ InitStore /\ IdleCounters /\ IdlePull /\ IdleExt
  /\ acl \in SeqsUpTo(Permissions, MaxRules)
  /\ operations \in SeqsUpTo(Modules, MaxOps)
  /\ signatures \in SeqsUpTo(Fingerprints \cup {"invalid"}, MaxSigs)
  /\ aclResult = "none"

SpecACL == InitACL /\ [][VerifyACLCall]_vars

NextScheduler ==
  \/ \E r \in Registrations : getRegistrations(r)
  \/ \E a \in ActionIds, file \in ActionFiles : newActionFile(a, file)
  \/ \E a \in ActionIds : pullAction(a)

SpecScheduler == Init /\ [][NextScheduler]_vars

AgentRegistration == [name |-> "h1", os |-> "linux"]

NextAgent ==
  \/ agentMain(AgentProc, AgentRegistration.name, AgentRegistration.os)
  \/ getRegistrations(AgentRegistration)
  \/ keepAliveAgent(AgentProc)
  \/ \E c \in Cmds, body \in CommandBodies : brokerPublish(c, body)
  \/ \E g \in Consumers, c \in Cmds : getCommandsRecv(g, c)
  \/ \E g \in Consumers : getCommandsAck(g)
  \/ \E g \in Consumers : getCommandsQueue(g)
  \/ parseCommands
  \/ runFilecheckerStart
  \/ moduleWrite
  \/ moduleExit
  \/ moduleTick
  \/ runFilecheckerDecode
  \/ runFilecheckerDone
  \/ runFilecheckerTimeout
  \/ sendResults

SpecAgent == Init /\ [][NextAgent]_vars

NextHeartbeat ==
  \/ \E p \in Procs, host \in Hosts, os \in OSes : agentMain(p, host, os)
  \/ \E t \in 0..MaxWall : wallStep(t)
  \/ \E p \in Procs : keepAliveAgent(p)

SpecHeartbeat == Init /\ [][NextHeartbeat]_vars

InitSign ==
  /\ InitStore /\ IdleCounters /\ IdleACL /\ IdlePull
  /\ IdleBroker /\ IdleAgent /\ IdleManifest /\ IdleMore
  /\ sAction \in SignActions
  /\ signerZone \in LocalZones
  /\ verifierZone \in LocalZones
  /\ sKey \in Secring \cup Pubring
  /\ sSig = NoSig
  /\ verified = "none"

SpecSign == InitSign /\ [][SignAction \/ VerifySignedAction]_vars

InitManifest ==
  /\ InitStore /\ IdleCounters /\ IdleACL /\ IdlePull
  /\ IdleBroker /\ IdleAgent /\ IdleSign /\ IdleMore
  /\ mSigs \in SeqsUpTo(ManifestSignatures, MaxManifestSigs)
  /\ mInput = mSigs
  /\ mCount = -1
  /\ mErr = FALSE

SpecManifest == InitManifest /\ [][ManifestVerifySignatures]_vars

InitWhitelist ==
  /\ InitStore /\ IdleCounters /\ IdleACL /\ IdlePull
  /\ IdleBroker /\ IdleAgent /\ IdleSign /\ IdleManifest /\ IdleUpload
  /\ IdleRelation /\ IdleFilter /\ IdleFilechecker
  /\ wlSet \in BOOLEAN
  /\ wlExists \in BOOLEAN
  /\ wlLines \in UNION {[1..n -> WhitelistLines] : n \in 0..MaxLines}
  /\ wlLoc \in QueueLocs
  /\ wlOk = FALSE
  /\ wlErr = FALSE
  /\ wlDone = FALSE

SpecWhitelist == InitWhitelist /\ [][isAgentAuthorized]_vars


InitUpload ==
  /\ InitStore /\ IdleCounters /\ IdleACL /\ IdlePull
  /\ IdleBroker /\ IdleAgent /\ IdleSign /\ IdleManifest /\ IdleWhitelist
  /\ IdleRelation /\ IdleFilter /\ IdleFilechecker
  /\ hbDecodable \in BOOLEAN
  /\ hbReq \in (IF hbDecodable THEN Heartbeats ELSE {ZeroHeartbeat})
  /\ hbAge \in 0..MaxAge
  /\ hbAuthOk \in BOOLEAN
  /\ hbPersistOk \in BOOLEAN
  /\ hbStatus = 0
  /\ hbAuthCalled = FALSE
  /\ hbPersistCalled = FALSE

SpecUpload == InitUpload /\ [][UploadHeartbeat]_vars


NextRelation ==
  \/ \E c \in DBClients, call \in DBCalls : DBCall(c, call)
  \/ \E c \in DBClients : InsertOrUpdateActionSelect(c)
  \/ \E c \in DBClients : UpdateActionExec(c)
  \/ \E c \in DBClients : InsertActionInsert(c)
  \/ \E c \in DBClients : InsertActionRelate(c)
  \/ \E c \in DBClients : SetupRunnableActionsForAgentSelect(c)
  \/ \E c \in DBClients : SetupRunnableActionsForAgentUpdate(c)

SpecRelation == Init /\ [][NextRelation]_vars


InitFilter ==
  /\ InitStore /\ IdleCounters /\ IdleACL /\ IdlePull
  /\ IdleBroker /\ IdleAgent /\ IdleSign /\ IdleManifest
  /\ IdleWhitelist /\ IdleUpload /\ IdleRelation /\ IdleFilechecker
  /\ fInput \in FilterInputs
  /\ fFilter \in UNION {[1..n -> FilterTokens] : n \in 0..MaxFilter}
  /\ fOutput = ""
  /\ fErr = FALSE
  /\ fDone = FALSE

SpecFilter == InitFilter /\ [][filterStringCall]_vars


NextFilechecker ==
  \E cl \in UNION {[1..n -> Filechecks] : n \in 0..MaxChecks},
     openable \in SUBSET Files : Run(cl, openable)

SpecFilechecker == Init /\ [][NextFilechecker]_vars


(***************************************************************************)
(* Claims on the action store.                                             *)
(***************************************************************************)
Finished(p) == pc[p] \in {"done", "failed"}

Quiet(p) == "other" \notin writers[p]

Solo(p) == writers[p] = {}

SameStart(p, q) ==
  /\ base[p] = base[q]
  /\ callNow[p] = callNow[q]
  /\ Quiet(p)
  /\ Quiet(q)

\* C1: two SetupRunnableActions calls that run concurrently return disjoint
\* sets of actions, and when both started from the same table at the same
\* instant the union of the two sets is what a single call returns there.
C1_DisjointUnion ==
  \A p \in Schedulers, q \in Schedulers :
    (p # q /\ Finished(p) /\ Finished(q) /\ overlap[p] /\ overlap[q]) =>
      /\ ret[p] \cap ret[q] = {}
      /\ SameStart(p, q) => ret[p] \cup ret[q] = RunnableIn(base[p], callNow[p])

C1_Witness ==
  \E p \in Schedulers, q \in Schedulers :
    /\ p # q /\ Finished(p) /\ Finished(q) /\ overlap[p] /\ overlap[q]
    /\ SameStart(p, q)
    /\ ret[p] \cup ret[q] # {}

AllCommandsTerminal(a) ==
  \A g \in Agents : commands[a][g] \in TerminalCommandStatuses \cup {"none"}

Rank(status) ==
  CASE status = "pending" -> 0
    [] status = "scheduled" -> 1
    [] status = "preparing" -> 2
    [] status = "inflight" -> 3
    [] OTHER -> 4

\* C10: the stored status of an action only moves forward along pending,
\* scheduled, preparing, inflight, {completed, expired, cancelled}; a
\* completed, expired or cancelled action never changes status again.
C10_ForwardOnly ==
  [][\A a \in ActionIds :
       (actions[a].status # "none" /\ actions'[a].status # actions[a].status) =>
         Rank(actions'[a].status) > Rank(actions[a].status)]_vars

(***************************************************************************)
(* Claims on GetActionCounters.                                            *)
(***************************************************************************)
\* C7: the counters GetActionCounters computes for any set of command rows
\* satisfy done = success + cancelled + expired + failed + timeout.
C7_DoneIsSum ==
  ctrPhase = "done" =>
    counters.Done = counters.Success + counters.Cancelled + counters.Expired
                      + counters.Failed + counters.TimeOut

C7_Witness ==
  /\ ctrPhase = "done"
  /\ \A s \in CommandStatuses : cmdCount[s] > 0
  /\ counters.Done > counters.Success

\* C8: counters.returned is the number of commands whose result came back
\* (status success, failed, timeout or cancelled); one command with status
\* success gives sent=1, returned=1, success=1, done=1.
C8_ReturnedCounted ==
  ctrPhase = "done" =>
    counters.Returned = cmdCount[StatusSuccess] + cmdCount[StatusFailed]
                          + cmdCount[StatusTimeout] + cmdCount[StatusCancelled]

(***************************************************************************)
(* Claims on VerifyACL.                                                    *)
(***************************************************************************)
SignerFingerprints ==
  {GetFingerprintFromSignature(signatures[n]).fp : n \in 1..Len(signatures)}

AllSignaturesVerify ==
  \A k \in 1..Len(signatures) : ~GetFingerprintFromSignature(signatures[k]).err

HasRule(module) ==
  \/ FirstPermission(acl, module, 1) > 0
  \/ LastPermission(acl, "default", Len(acl)) > 0

\* C3: VerifyACL authorizes the action iff every operation of the action,
\* not only the first, has signers whose weights under the applicable rule
\* sum to at least the rule's minimum weight (stated for actions whose
\* signatures all verify and whose operations all have an applicable rule).
C3_EveryOperation ==
  (/\ aclResult # "none"
   /\ AllSignaturesVerify
   /\ \A k \in 1..Len(operations) : HasRule(operations[k])) =>
    (aclResult = "ok" <=>
       \A k \in 1..Len(operations) :
         VerifyOperation(acl, operations[k], SignerFingerprints) = "ok")

\* C16: when some operation of the action has neither a rule named after its
\* module nor a default rule in the ACL, VerifyACL denies the action,
\* whatever the signatures.
C16_NoRuleDenied ==
  (/\ aclResult # "none"
   /\ \E k \in 1..Len(operations) : ~HasRule(operations[k])) =>
     aclResult = "denied"

(***************************************************************************)
(* Claims on the scheduler's pullAction.                                   *)
(***************************************************************************)
\* C4: no command is emitted for an action whose signatures do not all
\* verify.
C4_NoCommandUnlessVerified ==
  \A q \in QueueLocs :
    readyCmds[q] # NoCommand => VerifySignatures(readyCmds[q].Action)

\* C5: no command is created for an action with an empty signature list.
C5_NoCommandForUnsigned ==
  \A q \in QueueLocs :
    readyCmds[q] # NoCommand => Len(readyCmds[q].Action.pgpsignatures) >= 1

\* C9: the ready commands of a pulled action are as many as the agents its
\* target matched: one command per agent, none replaced by another action's.
C9_OneCommandPerMatchedAgent ==
  \A a \in ActionIds :
    matched[a] >= 0 =>
      Cardinality({q \in QueueLocs : readyCmds[q].ActionID = a}) = matched[a]

(***************************************************************************)
(* Claims on the agent.                                                    *)
(***************************************************************************)
\* C11: a delivery is acknowledged only after its body has been handed to
\* the next stage: every acknowledged command has been sent on the actions
\* channel.
C11_AckAfterHandoff ==
  \A c \in Cmds : inbox[c].state = "acked" => c \in queued

\* C12: while the agent waits on a module process, no more than the module
\* timeout has passed since the process was started.
C12_BoundedModuleWait ==
  (agentUp /\ rpc \in {"decode", "select"}) => elapsed <= ModuleTimeout

\* C13: after a module execution that timed out or failed the agent process
\* is still running.
C13_AgentSurvivesModule ==
  \A c \in Cmds : outcome[c] \in {"timeout", "failed"} => agentUp

\* C23: an acknowledgement acknowledges its own delivery only: a delivery a
\* getCommands goroutine holds and has not acknowledged itself is still
\* unacknowledged.
C23_AckOwnDeliveryOnly ==
  \A g \in Consumers : gpc[g] = "ack" => inbox[held[g]].state = "unacked"

\* C26: after any sequence of registration messages a queue
\* mig.scheduler.<queueloc> has at most one consumer, and every agent that
\* registered has its registration document with name, os and queueloc and no
\* document was left without them.
C26_OneConsumerOneRecord ==
  /\ \A q \in QueueLocs : consumers[q] <= 1
  /\ \A r \in Registrations : consumers[QueueLoc(r)] > 0 => r \in regDocs
  /\ regBlank = 0

\* C14: every heartbeat and every result an agent published was routed to a
\* queue a scheduler consumes, mig.register or a mig.scheduler.<queueloc>.
C14_RoutedToScheduler ==
  \A m \in published :
    \E q \in m.queues : q[1] \in {"mig.register", "mig.scheduler"}

\* C15: two agent processes started on the same host have different queue
\* locations.
C15_FreshQueueLoc ==
  \A p \in Procs, q \in Procs :
    (p # q /\ started[p] /\ started[q] /\ queueLoc[p][2] = queueLoc[q][2]) =>
      queueLoc[p] # queueLoc[q]

ISO(t) == <<t.instant, "Z">>

\* the canonical string in the form the claim gives
CanonicalString(a) ==
  <<"name=", a.name, "; ",
    "target=", a.target, "; ",
    "validfrom=", ISO(a.validfrom), "; ",
    "expireafter=", ISO(a.expireafter), "; ",
    "operations=", MarshalParsedOperations(a.operations), ";">>

Signed == sSig # NoSig /\ ~sSig.err

\* C17: the string that is signed is name=<N>; target=<T>; validfrom=<ISO>;
\* expireafter=<ISO>; operations=<JSON of operations>; of the action signed.
C17_CanonicalString ==
  Signed =>
    sSig.data = CanonicalString(ActionFromFile(MarshalAction(sAction), signerZone))

\* C18: an action signed with a key that is in the secret keyring and in the
\* public keyring verifies, wherever it is signed and wherever it is
\* verified.
C18_SignThenVerify ==
  (verified # "none" /\ sKey \in Secring \cap Pubring) => verified = "ok"

(***************************************************************************)
(* Claims on the manifest.                                                 *)
(***************************************************************************)
\* C19: the count VerifySignatures returns is the number of distinct trusted
\* keys with a valid signature over the manifest's entries.
C19_DistinctTrustedKeys ==
  (mCount # -1 /\ ~mErr) =>
    mCount = Cardinality({mInput[i].key :
                            i \in {k \in 1..Len(mInput) : ManifestVerify(mInput[k]).valid}})

(***************************************************************************)
(* Claims on the agent whitelist.                                          *)
(***************************************************************************)
\* C21: when isAgentAuthorized returns without an error, ok is true iff no
\* whitelist is configured or some whitelist line, anchored, matches the
\* agent's queue location.
C21_AuthorizedIff ==
  (wlDone /\ ~wlErr) =>
    (wlOk <=> (~wlSet \/ \E i \in 1..Len(wlLines) : MatchString(wlLines[i], wlLoc)))


(***************************************************************************)
(* Claims on UploadHeartbeat.                                              *)
(***************************************************************************)
\* C22: a request is handled in the order decode, validate, authenticate,
\* persist and stops at the first failure: Authenticate is not called for an
\* undecodable or invalid heartbeat, PersistHeartbeat is not called after a
\* failed decoding, validation or authentication, and the status is 400, 400,
\* 401, 500 for the four failures and 200 only when the heartbeat was
\* persisted.
C22_StopAtFirstFailure ==
  hbStatus # 0 =>
    LET invalid == hbDecodable /\ validate(hbReq, hbAge)
        valid == hbDecodable /\ ~validate(hbReq, hbAge)
    IN /\ hbAuthCalled <=> valid
       /\ hbPersistCalled <=> (valid /\ hbAuthOk)
       /\ ~hbDecodable => hbStatus = StatusBadRequest
       /\ invalid => hbStatus = StatusBadRequest
       /\ (valid /\ ~hbAuthOk) => hbStatus = StatusUnauthorized
       /\ (valid /\ hbAuthOk /\ ~hbPersistOk) => hbStatus = StatusInternalServerError
       /\ hbStatus = StatusOK <=> (hbPersistCalled /\ hbPersistOk)

\* an invalid heartbeat from an agent that would have authenticated was
\* answered
C22_Witness ==
  /\ hbStatus = StatusBadRequest
  /\ hbDecodable /\ validate(hbReq, hbAge) /\ hbAuthOk

\* C27: a heartbeat with every required field, mode daemon or checkin, a name
\* and a version within their limits, from an agent that authenticates, is
\* handed to PersistHeartbeat however old its start time; and validate fails
\* iff a field is missing or an error condition holds.
C27_PersistedWhateverAge ==
  hbStatus # 0 =>
    /\ ( /\ hbDecodable /\ ~MissingFields(hbReq)
         /\ hbReq.mode \in {"daemon", "checkin"}
         /\ hbReq.name <= NameLimit /\ hbReq.version <= VersionLimit
         /\ hbAuthOk )
       => hbPersistCalled
    /\ hbDecodable =>
         ((hbStatus = StatusBadRequest) <=>
            (MissingFields(hbReq) \/ TRUE \in ErrorConditions(hbReq, hbAge)))


(***************************************************************************)
(* Claims on the agent_action_relation table.                              *)
(***************************************************************************)
\* C24: whatever the interleaving of SetupRunnableActionsForAgent calls, an
\* action is returned for an agent by at most one call, the actions a call
\* returned are marked retrieved, and a call that found no unretrieved action
\* returns the empty list without an error.
C24_ReturnedOnce ==
  /\ \A a \in ActionIds, g \in Agents : handed[a][g] <= 1
  /\ \A c \in DBClients :
       (dpc[c] = "returned" /\ dcall[c].op = "SetupRunnableActionsForAgent") =>
         /\ \A a \in dres[c].actions : relation[a][dcall[c].agent] = "retrieved"
         /\ dsel[c] = {} => (~dres[c].err /\ dres[c].actions = {})

\* C25: InsertOrUpdateAction with a target that evaluates returns no error,
\* also when another call for the same id runs concurrently; it reports
\* inserted=true iff its lookup found no row with the id, and when it found
\* one it changes no column of the row but the status.
C25_InsertOrUpdate ==
  [][\A c \in DBClients :
       ( /\ dcall[c].op = "InsertOrUpdateAction"
         /\ dcall[c].target.valid
         /\ dpc[c] # "returned" /\ dpc'[c] = "returned" ) =>
         /\ ~dres'[c].err
         /\ dres'[c].inserted <=> dnew'[c]
         /\ dpc[c] = "update" =>
              actions' = [actions EXCEPT ![dcall[c].id].status = dcall[c].row.status]
    ]_vars

\* C28: an InsertAction that returns an error leaves neither its action row
\* nor a relation row of the action; one that succeeds leaves exactly one
\* relation row per agent the target selects.
C28_AllOrNothing ==
  \A c \in DBClients :
    (dpc[c] = "returned" /\ dcall[c].op = "InsertAction") =>
      /\ (dres[c].err /\ dnew[c]) =>
           /\ actions[dcall[c].id].status = "none"
           /\ relation[dcall[c].id] = NoRelation
      /\ ~dres[c].err =>
           {g \in Agents : relation[dcall[c].id][g] # "none"} = dcall[c].target.agents


(***************************************************************************)
(* Claims on filterString.                                                 *)
(***************************************************************************)
\* the tokens of f from i on are complete groups "|" "grep" ["-v"] <pattern>
RECURSIVE CompleteGroups(_, _)
CompleteGroups(f, i) ==
  \/ i > Len(f)
  \/ /\ i + 2 <= Len(f)
     /\ f[i].tok = "|" /\ f[i + 1].tok = "grep" /\ f[i + 2].tok = "pattern"
     /\ CompleteGroups(f, i + 3)
  \/ /\ i + 3 <= Len(f)
     /\ f[i].tok = "|" /\ f[i + 1].tok = "grep" /\ f[i + 2].tok = "-v"
     /\ f[i + 3].tok = "pattern"
     /\ CompleteGroups(f, i + 4)

\* the input matches every "| grep" pattern and no "| grep -v" pattern
PassesFilter(input, f) ==
  \A i \in 1..Len(f) :
    f[i].tok = "pattern" =>
      IF f[i - 1].tok = "-v" THEN input \notin f[i].matches
      ELSE input \in f[i].matches

\* C29: a filter that is not a sequence of complete groups yields an error;
\* a filter of complete groups whose patterns compile yields the input when
\* the input matches every grep pattern and no grep -v pattern, and the empty
\* string otherwise.
C29_FilterString ==
  fDone =>
    /\ ~CompleteGroups(fFilter, 1) => fErr
    /\ ( /\ CompleteGroups(fFilter, 1)
         /\ \A i \in 1..Len(fFilter) : fFilter[i].valid ) =>
         /\ ~fErr
         /\ fOutput = IF PassesFilter(fInput, fFilter) THEN fInput ELSE ""


(***************************************************************************)
(* Claims on the filechecker's statistics.                                 *)
(***************************************************************************)
\* C30: after a run, statistics.filescount is the number of files the run
\* inspected and the filecount of every check is the number of inspected
\* files the check applies to.
C30_FilesCounted ==
  runs > 0 =>
    /\ stats.Filescount = Cardinality(inspected)
    /\ \A id \in 1..Len(checklist) :
         checklist[id].filecount = Cardinality(checklist[id].files \cap inspected)


====
